---- MODULE Spec2Model ----
(***************************************************************************)
(* Model of the lefiya schedule bot (src/src/main.py): the shift           *)
(* classifier Schedule.from_name, the roster parser _parse_fairies, the    *)
(* send gate (_is_new_day, _is_send_time), run_once, the polling loop run  *)
(* and the entry point main.                                               *)
(*                                                                         *)
(* Text is a sequence of characters.  The three characters of the shift    *)
(* keywords are written "wu" (U+5348), "wan" (U+665A) and "an" (U+5B89);   *)
(* the emoji are written "sun", "earth" and "moon".                        *)
(*                                                                         *)
(* The wall clock is read once per cycle: time advances only while the     *)
(* loop sleeps (time.sleep(60)), by one minute.                            *)
(***************************************************************************)
EXTENDS Integers, Sequences, FiniteSets, TLC

VARIABLES
    now,        \* wall clock: [day, hour, minute], day is an index into the calendar
    record,     \* content of record.json (or its absence)
    pc,         \* position of the process: main, should_send, run_once, sleep, exited
    argv,       \* "force" or "loop" (no argument)
    config,     \* whether config.json exists
    gate,       \* what should_send saw in the current cycle
    cyc,        \* what run_once did in the current cycle
    exitMsg,    \* why the process ended ("" while it runs)
    sentToday,  \* successful deliveries on the current calendar day (0, 1, many)
    cycles,     \* calls of run_once so far (0, 1, many)
    failedToday, \* a delivery failed on the current calendar day and none succeeded since
    fnIn,       \* argument of the function under test (function specifications)
    fnOut       \* its result

vars == <<now, record, pc, argv, config, gate, cyc, exitMsg, sentToday, cycles, failedToday,
          fnIn, fnOut>>

-----------------------------------------------------------------------------
(* Bounds *)

\* calendar days the clock runs through
NumDays == 2
\* longest label drawn for the classifier
MaxLabelLen == 5
\* most categories in a parser input
MaxCats == 3
\* most items in a category of a parser input
MaxItems == 1

-----------------------------------------------------------------------------
(* Text *)

Digits == <<"0", "1", "2", "3", "4", "5", "6", "7", "8", "9">>

IsDigit(c) == \E i \in 1..10 : Digits[i] = c

DigitVal(c) == (CHOOSE i \in 1..10 : Digits[i] = c) - 1

RECURSIVE DigitsValue(_)
DigitsValue(s) ==
    IF s = <<>> THEN 0
    ELSE 10 * DigitsValue(SubSeq(s, 1, Len(s) - 1)) + DigitVal(s[Len(s)])

\* int(s) of a str: the value, or ValueError when s is not a run of digits
PyInt(s) ==
    IF s # <<>> /\ \A i \in 1..Len(s) : IsDigit(s[i])
    THEN [ok |-> TRUE, v |-> DigitsValue(s)]
    ELSE [ok |-> FALSE, v |-> 0]

\* Python's  sub in s  on str
Contains(sub, s) ==
    \E i \in 0..(Len(s) - Len(sub)) : SubSeq(s, i + 1, i + Len(sub)) = sub

\* Python's  s[:n]
Prefix(s, n) == SubSeq(s, 1, IF Len(s) < n THEN Len(s) ELSE n)

\* a number as exactly w decimal digits (strftime's zero padding)
RECURSIVE Pad(_, _)
Pad(n, w) ==
    IF w = 0 THEN <<>> ELSE Append(Pad(n \div 10, w - 1), Digits[(n % 10) + 1])

-----------------------------------------------------------------------------
(* Calendar and clock: datetime.now() *)

\* the first day of the run: Sunday 2024-06-30 (weekday() = 6)
StartDate == [y |-> 2024, m |-> 6, d |-> 30, wd |-> 6]

IsLeap(y) == (y % 4 = 0 /\ y % 100 # 0) \/ y % 400 = 0

DaysInMonth(y, m) ==
    IF m = 2 THEN (IF IsLeap(y) THEN 29 ELSE 28)
    ELSE IF m \in {4, 6, 9, 11} THEN 30 ELSE 31

NextDate(c) ==
    IF c.d < DaysInMonth(c.y, c.m)
    THEN [c EXCEPT !.d = c.d + 1, !.wd = (c.wd + 1) % 7]
    ELSE IF c.m < 12
    THEN [c EXCEPT !.d = 1, !.m = c.m + 1, !.wd = (c.wd + 1) % 7]
    ELSE [c EXCEPT !.d = 1, !.m = 1, !.y = c.y + 1, !.wd = (c.wd + 1) % 7]

PrevDate(c) ==
    IF c.d > 1
    THEN [c EXCEPT !.d = c.d - 1, !.wd = (c.wd + 6) % 7]
    ELSE IF c.m > 1
    THEN [c EXCEPT !.d = DaysInMonth(c.y, c.m - 1), !.m = c.m - 1, !.wd = (c.wd + 6) % 7]
    ELSE [c EXCEPT !.d = 31, !.m = 12, !.y = c.y - 1, !.wd = (c.wd + 6) % 7]

\* the date of calendar day i (day 0 is StartDate, day -1 the day before)
RECURSIVE Calendar(_)
Calendar(i) ==
    IF i = 0 THEN StartDate
    ELSE IF i < 0 THEN PrevDate(Calendar(i + 1))
    ELSE NextDate(Calendar(i - 1))

\* datetime.strftime("%Y%m%d")
Strftime(c) == Pad(c.y, 4) \o Pad(c.m, 2) \o Pad(c.d, 2)

\* the days the clock can show, with their date as strftime and int() give it
Days == [i \in 0..NumDays |-> [wd |-> Calendar(i).wd, today |-> PyInt(Strftime(Calendar(i))).v]]

\* datetime.weekday()
Weekday(t) == Days[t.day].wd

\* int(datetime.now().strftime("%Y%m%d"))
Today(t) == Days[t.day].today

-----------------------------------------------------------------------------
(* class Schedule *)

\* members in definition order: iteration over the Enum follows it
ScheduleMembers == <<"DAY", "ALL", "NIGHT">>

Keyword(sch) ==
    IF sch = "DAY" THEN <<"wu", "an">>
    ELSE IF sch = "ALL" THEN <<"wu", "wan", "an">>
    ELSE <<"wan", "an">>

Emoji(sch) ==
    IF sch = "DAY" THEN "sun" ELSE IF sch = "ALL" THEN "earth" ELSE "moon"

Order(sch) ==
    IF sch = "DAY" THEN 1 ELSE IF sch = "ALL" THEN 2 ELSE 3

\* from_name falling back to the first member instead of NIGHT
from_name_first(name) ==
    LET hits == {i \in 1..Len(ScheduleMembers) : Contains(Keyword(ScheduleMembers[i]), name)}
    IN  IF hits = {} THEN ScheduleMembers[1]
        ELSE ScheduleMembers[CHOOSE i \in hits : \A j \in hits : i <= j]

\* Schedule.from_name on a str: the first member, in definition order, whose
\* keyword occurs in the name; NIGHT when none does
from_name(name) ==
    LET hits == {i \in 1..Len(ScheduleMembers) : Contains(Keyword(ScheduleMembers[i]), name)}
    IN  IF hits = {} THEN "NIGHT"
        ELSE ScheduleMembers[CHOOSE i \in hits : \A j \in hits : i <= j]

-----------------------------------------------------------------------------
(* Send gate *)

IsWeekend(t) == Weekday(t) >= 5

\* _is_send_time with the upper minute bound included
is_send_time_le(wd, hour, minute) ==
    IF wd >= 5
    THEN (hour = 11 /\ minute > 40) \/ (hour = 12 /\ minute <= 59)
    ELSE (hour = 13 /\ minute > 40) \/ (hour = 14 /\ minute <= 59)

\* _is_send_time on (weekday(), hour, minute)
is_send_time(wd, hour, minute) ==
    IF wd >= 5
    THEN (hour = 11 /\ minute > 40) \/ (hour = 12 /\ minute < 59)
    ELSE (hour = 13 /\ minute > 40) \/ (hour = 14 /\ minute < 59)

\* _is_send_time without a window
is_send_time_always(t) == TRUE

\* _is_send_time on the clock
_is_send_time(t) == is_send_time(Weekday(t), t.hour, t.minute)

\* record.json.  t: "absent" (no file), "badjson" (not JSON), "nonobj" (JSON
\* but not an object), "obj"; for an object, d is the value under "date":
\* d.t is "absent" (no such key), "null", "str" (d.s) or "num" (d.n)
NoDate == [t |-> "absent", s |-> <<>>, n |-> 0]
NoRecord == [t |-> "absent", d |-> NoDate]
StrRecord(s) == [t |-> "obj", d |-> [t |-> "str", s |-> s, n |-> 0]]
NumRecord(n) == [t |-> "obj", d |-> [t |-> "num", s |-> <<>>, n |-> n]]

\* update_record: json.dump({"date": date}) over the file
update_record(date) == StrRecord(date)

\* _is_new_day comparing with <= 
is_new_day_le(rec, t) ==
    IF rec.t = "absent" THEN [raised |-> "", v |-> TRUE]
    ELSE IF rec.t = "badjson" THEN [raised |-> "", v |-> TRUE]
    ELSE IF rec.t = "nonobj" THEN [raised |-> "AttributeError", v |-> FALSE]
    ELSE IF rec.d.t = "absent" THEN [raised |-> "", v |-> 0 <= Today(t)]
    ELSE IF rec.d.t = "null" THEN [raised |-> "TypeError", v |-> FALSE]
    ELSE IF rec.d.t = "num" THEN [raised |-> "", v |-> rec.d.n <= Today(t)]
    ELSE IF ~PyInt(rec.d.s).ok THEN [raised |-> "", v |-> TRUE]
    ELSE [raised |-> "", v |-> PyInt(rec.d.s).v <= Today(t)]

\* _is_new_day: v is the value returned; raised names an exception that
\* escapes (only JSONDecodeError and ValueError are caught)
_is_new_day(rec, t) ==
    IF rec.t = "absent" THEN [raised |-> "", v |-> TRUE]
    ELSE IF rec.t = "badjson" THEN [raised |-> "", v |-> TRUE]
    ELSE IF rec.t = "nonobj" THEN [raised |-> "AttributeError", v |-> FALSE]
    ELSE IF rec.d.t = "absent" THEN [raised |-> "", v |-> 0 < Today(t)]
    ELSE IF rec.d.t = "null" THEN [raised |-> "TypeError", v |-> FALSE]
    ELSE IF rec.d.t = "num" THEN [raised |-> "", v |-> rec.d.n < Today(t)]
    ELSE IF ~PyInt(rec.d.s).ok THEN [raised |-> "", v |-> TRUE]
    ELSE [raised |-> "", v |-> PyInt(rec.d.s).v < Today(t)]

\* should_send with  or  in place of  and
should_send_or(rec, t) ==
    LET nd == _is_new_day(rec, t)
    IN  IF nd.raised # "" THEN [raised |-> nd.raised, v |-> FALSE, newDay |-> "-", inTime |-> "-"]
        ELSE IF nd.v THEN [raised |-> "", v |-> TRUE, newDay |-> "T", inTime |-> "-"]
        ELSE [raised |-> "", v |-> _is_send_time(t), newDay |-> "F",
              inTime |-> IF _is_send_time(t) THEN "T" ELSE "F"]

\* should_send:  _is_new_day() and _is_send_time(), the second evaluated
\* only when the first is true.  newDay, inTime: "T", "F" or "-" (not evaluated)
should_send(rec, t) ==
    LET nd == _is_new_day(rec, t)
    IN  IF nd.raised # "" THEN [raised |-> nd.raised, v |-> FALSE, newDay |-> "-", inTime |-> "-"]
        ELSE IF ~nd.v THEN [raised |-> "", v |-> FALSE, newDay |-> "F", inTime |-> "-"]
        ELSE [raised |-> "", v |-> _is_send_time(t), newDay |-> "T",
              inTime |-> IF _is_send_time(t) THEN "T" ELSE "F"]

-----------------------------------------------------------------------------
(* Menu data, as the JSON the API returns.                                  *)
(*   name value   [t, s]        t: "str" (s), "null", "num", "absent" (no key) *)
(*   item         [t, name]     t: "obj", "str", "null"                        *)
(*   item list    [t, l]        t: "list" (l), "null", "absent" (no key)       *)
(*   category     [t, name, items]   t: "obj", "str", "null"                   *)
(*   data         [t, cats]     t: "cats" (categoriesSnapshot is the list      *)
(*                cats), "nokey" (a key of the path is missing, as in {}),     *)
(*                "nullpath" (a value on the path is null), "nullcats"         *)
(*                (categoriesSnapshot is null)                                 *)

StrVal(s) == [t |-> "str", s |-> s]
AbsentVal == [t |-> "absent", s |-> <<>>]
NullVal == [t |-> "null", s |-> <<>>]
NumVal == [t |-> "num", s |-> <<>>]

ItemObj(nameVal) == [t |-> "obj", name |-> nameVal]
ItemList(l) == [t |-> "list", l |-> l]
NoItemList == [t |-> "absent", l |-> <<>>]
NullItemList == [t |-> "null", l |-> <<>>]
CategoryObj(nameVal, items) == [t |-> "obj", name |-> nameVal, items |-> items]
CatsData(cats) == [t |-> "cats", cats |-> cats]
EmptyData == [t |-> "nokey", cats |-> <<>>]

\* Fairy(name, schedule)
Fairy(nameVal, sch) == [name |-> nameVal, schedule |-> sch]

\* list.sort placing an entry before the entries of equal key
RECURSIVE sort_unstable(_)
sort_unstable(fs) ==
    IF fs = <<>> THEN <<>>
    ELSE LET rest == sort_unstable(SubSeq(fs, 1, Len(fs) - 1))
             x == fs[Len(fs)]
             k == Cardinality({i \in 1..Len(rest) : Order(rest[i].schedule) < Order(x.schedule)})
         IN  SubSeq(rest, 1, k) \o <<x>> \o SubSeq(rest, k + 1, Len(rest))

\* fairies.sort(key=lambda f: f.schedule.order): a stable sort; each entry
\* goes after the entries whose key is less than or equal to its own
RECURSIVE sort_by_order(_)
sort_by_order(fs) ==
    IF fs = <<>> THEN <<>>
    ELSE LET rest == sort_by_order(SubSeq(fs, 1, Len(fs) - 1))
             x == fs[Len(fs)]
             k == Cardinality({i \in 1..Len(rest) : Order(rest[i].schedule) <= Order(x.schedule)})
         IN  SubSeq(rest, 1, k) \o <<x>> \o SubSeq(rest, k + 1, Len(rest))

\* the inner loop:  for item in category.get("menuItemSnapshot", []):
\*                      fairies.append(Fairy(item["name"], schedule))
RECURSIVE ParseItems(_, _, _, _)
ParseItems(l, i, sch, fairies) ==
    IF i > Len(l) THEN [fairies |-> fairies, err |-> ""]
    ELSE IF l[i].t # "obj" THEN [fairies |-> fairies, err |-> "TypeError"]
    ELSE IF l[i].name.t = "absent" THEN [fairies |-> fairies, err |-> "KeyError"]
    ELSE ParseItems(l, i + 1, sch, Append(fairies, Fairy(l[i].name, sch)))

\* ParseCategory with  if len(name) >= 8  (every dated label overwrites the date)
ParseCategory_lastwins(cat, acc) ==
    IF cat.t # "obj" THEN [acc EXCEPT !.err = "TypeError"]
    ELSE IF cat.name.t = "absent" THEN [acc EXCEPT !.err = "KeyError"]
    ELSE IF cat.name.t # "str" THEN [acc EXCEPT !.err = "TypeError"]
    ELSE LET date == IF Len(cat.name.s) >= 8 THEN Prefix(cat.name.s, 8) ELSE acc.date
         IN  IF cat.items.t = "null"
             THEN [fairies |-> acc.fairies, date |-> date, err |-> "TypeError"]
             ELSE LET r == ParseItems(IF cat.items.t = "absent" THEN <<>> ELSE cat.items.l,
                                      1, from_name(cat.name.s), acc.fairies)
                  IN  [fairies |-> r.fairies, date |-> date, err |-> r.err]

\* one pass of the outer loop over a category
ParseCategory(cat, acc) ==
    IF cat.t # "obj" THEN [acc EXCEPT !.err = "TypeError"]
    ELSE IF cat.name.t = "absent" THEN [acc EXCEPT !.err = "KeyError"]
    ELSE IF acc.date = <<>> /\ cat.name.t # "str" THEN [acc EXCEPT !.err = "TypeError"]
    ELSE LET date == IF acc.date = <<>> /\ Len(cat.name.s) >= 8
                     THEN Prefix(cat.name.s, 8) ELSE acc.date
         IN  IF cat.name.t # "str" THEN [acc EXCEPT !.err = "TypeError"]
             ELSE IF cat.items.t = "null"
             THEN [fairies |-> acc.fairies, date |-> date, err |-> "TypeError"]
             ELSE LET r == ParseItems(IF cat.items.t = "absent" THEN <<>> ELSE cat.items.l,
                                      1, from_name(cat.name.s), acc.fairies)
                  IN  [fairies |-> r.fairies, date |-> date, err |-> r.err]

RECURSIVE ParseCategories(_, _, _)
ParseCategories(cats, i, acc) ==
    IF i > Len(cats) \/ acc.err # "" THEN acc
    ELSE ParseCategories(cats, i + 1, ParseCategory(cats[i], acc))

\* _parse_fairies: the roster and the date; err names the exception the
\* except clause caught and printed ("" when none), which skips the sort
_parse_fairies(data) ==
    IF data.t = "nokey" THEN [fairies |-> <<>>, date |-> <<>>, err |-> "KeyError"]
    ELSE IF data.t \in {"nullpath", "nullcats"}
    THEN [fairies |-> <<>>, date |-> <<>>, err |-> "TypeError"]
    ELSE LET r == ParseCategories(data.cats, 1, [fairies |-> <<>>, date |-> <<>>, err |-> ""])
         IN  IF r.err = "" THEN [r EXCEPT !.fairies = sort_by_order(r.fairies)] ELSE r

\* get_fairies.  hours is what fetch_menu_hours met: "uuids" (a non-empty
\* list), "empty" (no snapshot, or no uuid), "failed" (the request failed:
\* _make_request returned {}), "null" (a null on the path to the snapshots: a
\* TypeError, which fetch_menu_hours does not catch)
get_fairies(hours, data) ==
    IF hours = "null" THEN [fairies |-> <<>>, date |-> <<>>, err |-> "", raised |-> "TypeError"]
    ELSE IF hours # "uuids" THEN [fairies |-> <<>>, date |-> <<>>, err |-> "", raised |-> ""]
    ELSE LET r == _parse_fairies(data)
         IN  [fairies |-> r.fairies, date |-> r.date, err |-> r.err, raised |-> ""]

-----------------------------------------------------------------------------
(* Message *)

\* _get_opening_hours: the block for the day type
_get_opening_hours(t) == IF IsWeekend(t) THEN "hours_weekend" ELSE "hours_weekday"

\* format_message: the header with the date, a line of name and emoji per
\* fairy, the opening hours and the footer
format_message(fairies, date, t) ==
    [header |-> date,
     lines |-> [i \in 1..Len(fairies) |-> <<fairies[i].name, Emoji(fairies[i].schedule)>>],
     hours |-> _get_opening_hours(t),
     footer |-> "order_link"]

NoMessage == [header |-> <<>>, lines |-> <<>>, hours |-> "", footer |-> ""]

-----------------------------------------------------------------------------
(* run_once *)

\* send_message: True only for status 200; an exception of requests.post is
\* caught and gives False
send_message(result) == result = "200"

\* the staleness test without effect
IsStale_never(date, t) == FALSE

\* the staleness test with the comparison turned round
IsStale_gt(date, t) == PyInt(date).v > Today(t)

\* int(date) < int(today), for a date int() accepts
IsStale(date, t) == PyInt(date).v < Today(t)

\* the record written whatever send_message returned
RecordAfterSend_always(rec, date, sent) == update_record(date)

\* the record written when send_message returned False
RecordAfterSend_inverted(rec, date, sent) == IF sent THEN rec ELSE update_record(date)

\* if self.bot.send_message(message): self.update_record(date)
RecordAfterSend(rec, date, sent) == IF sent THEN update_record(date) ELSE rec

\* if not fairies and not date
NoData_and(fairies, date) == fairies = <<>> /\ date = <<>>

\* if not fairies or not date
NoData(fairies, date) == fairies = <<>> \/ date = <<>>

\* hours: what fetch_menu_hours met in the cycle ("" before any)
NoCycle ==
    [outcome |-> "none", attempted |-> FALSE, delivered |-> FALSE, fairies |-> <<>>,
     date |-> <<>>, err |-> "", raised |-> "", msg |-> NoMessage, hours |-> ""]

\* run_once on record rec at time t, given what the two fetches, the
\* delivery and the write of the record meet.  outcome: "no_data", "stale",
\* "send_failed", "sent" or "raised" (an exception left run_once)
run_once(rec, t, hours, data, sendResult, writeOk) ==
    LET g == get_fairies(hours, data)
        base == [NoCycle EXCEPT !.fairies = g.fairies, !.date = g.date, !.err = g.err,
                                !.hours = hours]
        msg == format_message(g.fairies, g.date, t)
        sent == send_message(sendResult)
    IN  IF g.raised # ""
        THEN [cyc |-> [base EXCEPT !.outcome = "raised", !.raised = g.raised], record |-> rec]
        ELSE IF NoData(g.fairies, g.date)
        THEN [cyc |-> [base EXCEPT !.outcome = "no_data"], record |-> rec]
        ELSE IF ~PyInt(g.date).ok
        THEN [cyc |-> [base EXCEPT !.outcome = "raised", !.raised = "ValueError"], record |-> rec]
        ELSE IF IsStale(g.date, t)
        THEN [cyc |-> [base EXCEPT !.outcome = "stale"], record |-> rec]
        ELSE IF sent /\ ~writeOk
        THEN [cyc |-> [base EXCEPT !.outcome = "raised", !.raised = "OSError",
                                   !.attempted = TRUE, !.delivered = TRUE, !.msg = msg],
              record |-> rec]
        ELSE [cyc |-> [base EXCEPT !.outcome = IF sent THEN "sent" ELSE "send_failed",
                                   !.attempted = TRUE, !.delivered = sent, !.msg = msg],
              record |-> RecordAfterSend(rec, g.date, sent)]

-----------------------------------------------------------------------------
(* What the environment can present *)

Wu == "wu"
Wan == "wan"
An == "an"

\* the dates of the days around the run, as %Y%m%d text
DateTokens == {Strftime(Calendar(i)) : i \in (0 - 1)..NumDays}

\* an eight-character label prefix that is not a number
NotADate == <<"x", "x", "x", "x", "x", "x", "x", "x">>

Alice == StrVal(<<"A">>)
Bob == StrVal(<<"B">>)

\* a night and a day category for the date d, one fairy each
Roster(d) ==
    CatsData(<<CategoryObj(StrVal(d \o <<Wan, An>>), ItemList(<<ItemObj(Bob)>>)),
               CategoryObj(StrVal(d \o <<Wu, An>>), ItemList(<<ItemObj(Alice)>>))>>)

\* the same with a nameless item in the second category
BrokenRoster(d) ==
    CatsData(<<CategoryObj(StrVal(d \o <<Wan, An>>), ItemList(<<ItemObj(Bob)>>)),
               CategoryObj(StrVal(d \o <<Wu, An>>), ItemList(<<ItemObj(AbsentVal)>>))>>)

\* a dated category without items
EmptyRoster(d) ==
    CatsData(<<CategoryObj(StrVal(d \o <<Wu, An>>), ItemList(<<>>))>>)

\* a category whose label is too short to carry a date
UndatedRoster ==
    CatsData(<<CategoryObj(StrVal(<<Wu, An>>), ItemList(<<ItemObj(Alice)>>))>>)

MenuData ==
    {Roster(d) : d \in DateTokens \cup {NotADate}}
        \cup {BrokenRoster(d) : d \in DateTokens}
        \cup {EmptyRoster(d) : d \in DateTokens}
        \cup {UndatedRoster, EmptyData}

SendResults == {"200", "non200", "exception"}

\* what one call of run_once can meet
RunInputs ==
    {[hours |-> h, data |-> EmptyData, send |-> "non200", write |-> TRUE] :
        h \in {"empty", "failed", "null"}}
    \cup {[hours |-> "uuids", data |-> d, send |-> sr, write |-> TRUE] :
        d \in MenuData, sr \in SendResults}
    \cup {[hours |-> "uuids", data |-> d, send |-> "200", write |-> FALSE] : d \in MenuData}

\* record.json as the process can find it at start
InitialRecords ==
    {NoRecord,
     [t |-> "badjson", d |-> NoDate],
     [t |-> "nonobj", d |-> NoDate],
     [t |-> "obj", d |-> NoDate],
     [t |-> "obj", d |-> [t |-> "null", s |-> <<>>, n |-> 0]],
     StrRecord(NotADate)}
    \cup {StrRecord(d) : d \in DateTokens}
    \cup {NumRecord(PyInt(Strftime(Calendar(i))).v) : i \in (0 - 1)..0}

\* the times of day 0 at which the process is started
StartTimes ==
    {[day |-> 0, hour |-> h, minute |-> m] : h \in {0, 11, 12, 13}, m \in {0, 40, 41, 58, 59}}

NoGate == [newDay |-> "-", inTime |-> "-", raised |-> ""]

-----------------------------------------------------------------------------
(* The process *)

Init ==
    /\ now \in StartTimes
    /\ record \in InitialRecords
    /\ pc = "main"
    /\ argv \in {"force", "none"}
    /\ config \in BOOLEAN
    /\ gate = NoGate
    /\ cyc = NoCycle
    /\ exitMsg = ""
    /\ sentToday = 0
    /\ cycles = 0
    /\ failedToday = FALSE
    /\ fnIn = <<>>
    /\ fnOut = <<>>

Bump(n) == IF n < 2 THEN n + 1 ELSE 2

\* main: load the configuration, then run_once for "force", run otherwise
Main ==
    /\ pc = "main"
    /\ IF ~config THEN pc' = "exited" /\ exitMsg' = "config.json not found"
       ELSE IF argv = "force" THEN pc' = "run_once" /\ exitMsg' = exitMsg
       ELSE pc' = "should_send" /\ exitMsg' = exitMsg
    /\ UNCHANGED <<now, record, argv, config, gate, cyc, sentToday, cycles, failedToday,
                   fnIn, fnOut>>

\* run: the test  if self.should_send()  at the head of a cycle
ShouldSend ==
    /\ pc = "should_send"
    /\ \E r \in {should_send(record, now)} :
           /\ gate' = [newDay |-> r.newDay, inTime |-> r.inTime, raised |-> r.raised]
           /\ IF r.raised # "" THEN pc' = "exited" /\ exitMsg' = "Unexpected error"
              ELSE IF r.v THEN pc' = "run_once" /\ exitMsg' = exitMsg
              ELSE pc' = "sleep" /\ exitMsg' = exitMsg
    /\ cyc' = NoCycle
    /\ UNCHANGED <<now, record, argv, config, sentToday, cycles, failedToday, fnIn, fnOut>>

\* run_once, called by run or by main
RunOnce ==
    /\ pc = "run_once"
    /\ \E r \in {run_once(record, now, inp.hours, inp.data, inp.send, inp.write) :
                    inp \in RunInputs} :
             /\ record' = r.record
             /\ cyc' = r.cyc
             /\ sentToday' = IF r.cyc.delivered THEN Bump(sentToday) ELSE sentToday
             /\ failedToday' = IF r.cyc.delivered THEN FALSE
                               ELSE IF r.cyc.attempted THEN TRUE ELSE failedToday
             /\ IF r.cyc.raised # "" THEN pc' = "exited" /\ exitMsg' = "Unexpected error"
                ELSE IF argv = "force" THEN pc' = "exited" /\ exitMsg' = "returned"
                ELSE pc' = "sleep" /\ exitMsg' = exitMsg
    /\ cycles' = Bump(cycles)
    /\ UNCHANGED <<now, argv, config, gate, fnIn, fnOut>>

\* the clock one minute later
NextMinute(t) ==
    IF t.minute < 59 THEN [t EXCEPT !.minute = t.minute + 1]
    ELSE IF t.hour < 23 THEN [t EXCEPT !.minute = 0, !.hour = t.hour + 1]
    ELSE [day |-> t.day + 1, hour |-> 0, minute |-> 0]

\* run: time.sleep(60), then the next cycle
Sleep ==
    /\ pc = "sleep"
    /\ NextMinute(now).day < NumDays
    /\ now' = NextMinute(now)
    /\ sentToday' = IF now'.day # now.day THEN 0 ELSE sentToday
    /\ failedToday' = IF now'.day # now.day THEN FALSE ELSE failedToday
    /\ pc' = "should_send"
    /\ UNCHANGED <<record, argv, config, gate, cyc, exitMsg, cycles, fnIn, fnOut>>

Next == Main \/ ShouldSend \/ RunOnce \/ Sleep

Spec == Init /\ [][Next]_vars

-----------------------------------------------------------------------------
(* Function specifications: one call of a function on an input drawn at     *)
(* start; the process itself stays idle.                                    *)

Idle ==
    /\ now = [day |-> 0, hour |-> 0, minute |-> 0]
    /\ record = NoRecord
    /\ pc = "call"
    /\ argv = "none"
    /\ config = TRUE
    /\ gate = NoGate
    /\ cyc = NoCycle
    /\ exitMsg = ""
    /\ sentToday = 0
    /\ cycles = 0
    /\ failedToday = FALSE

IdleVars == <<now, record, argv, config, gate, cyc, exitMsg, sentToday, cycles, failedToday>>

\* the characters labels are drawn from: the keyword characters and another
LabelChars == {Wu, Wan, An, "x"}

Labels == UNION {[1..n -> LabelChars] : n \in 0..MaxLabelLen}

InitClassify == Idle /\ fnIn \in Labels /\ fnOut = "none"

Classify ==
    /\ pc = "call"
    /\ fnOut' = from_name(fnIn)
    /\ pc' = "done"
    /\ UNCHANGED <<IdleVars, fnIn>>

SpecClassify == InitClassify /\ [][Classify]_vars

Times == [wd : 0..6, hour : 0..23, minute : 0..59]

InitTime == Idle /\ fnIn \in Times /\ fnOut = "none"

SendTime ==
    /\ pc = "call"
    /\ fnOut' = is_send_time(fnIn.wd, fnIn.hour, fnIn.minute)
    /\ pc' = "done"
    /\ UNCHANGED <<IdleVars, fnIn>>

SpecTime == InitTime /\ [][SendTime]_vars

\* labels of the parser inputs: a day, an all and a night category, the
\* first two dated (with different dates), the third too short for a date
DayLabel == StrVal(Strftime(Calendar(0)) \o <<Wu, An>>)
AllLabel == StrVal(Strftime(Calendar(1)) \o <<Wu, Wan, An>>)
NightLabel == StrVal(<<Wan, An>>)
ParseLabels == {DayLabel, AllLabel, NightLabel}

SeqsUpTo(S, n) == UNION {[1..k -> S] : k \in 0..n}

GoodItems == {ItemObj(Alice), ItemObj(Bob)}

GoodCategories ==
    {CategoryObj(l, ItemList(is)) : l \in ParseLabels, is \in SeqsUpTo(GoodItems, MaxItems)}

\* categories with a missing or mistyped field
BadCategories ==
    {[t |-> "null", name |-> AbsentVal, items |-> NoItemList],
     [t |-> "str", name |-> AbsentVal, items |-> NoItemList],
     CategoryObj(AbsentVal, ItemList(<<ItemObj(Alice)>>)),
     CategoryObj(NullVal, ItemList(<<ItemObj(Alice)>>)),
     CategoryObj(NumVal, ItemList(<<ItemObj(Alice)>>)),
     CategoryObj(DayLabel, NoItemList),
     CategoryObj(DayLabel, NullItemList),
     CategoryObj(DayLabel, ItemList(<<ItemObj(Alice), ItemObj(AbsentVal)>>)),
     CategoryObj(DayLabel, ItemList(<<ItemObj(Alice), [t |-> "str", name |-> AbsentVal]>>)),
     CategoryObj(DayLabel, ItemList(<<[t |-> "null", name |-> AbsentVal], ItemObj(Alice)>>))}

MixedCategories ==
    BadCategories \cup {CategoryObj(l, ItemList(<<ItemObj(Bob)>>)) : l \in ParseLabels}

\* data whose path to categoriesSnapshot is broken
BrokenData == {EmptyData, [t |-> "nullpath", cats |-> <<>>], [t |-> "nullcats", cats |-> <<>>]}

\* the parser inputs: up to MaxCats categories, all well formed or drawn from
\* the mixed ones, and the broken data
InitParse ==
    /\ Idle
    /\ \/ \E k \in 0..MaxCats : \E cs \in [1..k -> GoodCategories] : fnIn = CatsData(cs)
       \/ \E k \in 0..MaxCats : \E cs \in [1..k -> MixedCategories] : fnIn = CatsData(cs)
       \/ fnIn \in BrokenData
    /\ fnOut = "none"

Parse ==
    /\ pc = "call"
    /\ fnOut' = _parse_fairies(fnIn)
    /\ pc' = "done"
    /\ UNCHANGED <<IdleVars, fnIn>>

SpecParse == InitParse /\ [][Parse]_vars

-----------------------------------------------------------------------------
(* Claims *)

Continuous == argv # "force"

\* C1: in continuous mode, once a delivery has succeeded on a calendar day no
\* later cycle of that day attempts a delivery, so a day sees at most one
\* successful delivery
C1_OneDeliveryPerDay ==
    [][Continuous =>
        /\ sentToday' <= 1
        /\ (pc = "run_once" /\ sentToday >= 1 => ~cyc'.attempted)]_vars

\* a later cycle of the day of a delivery, inside the time window, which the
\* new-day check turned away
C1_Witness ==
    /\ Continuous
    /\ sentToday = 1
    /\ _is_send_time(now)
    /\ pc = "sleep"
    /\ gate.newDay = "F"
    /\ cyc = NoCycle

\* C2: the record changes only in a cycle whose delivery returned success,
\* to exactly that cycle's RosterDate; every other cycle (gate closed, no
\* data, stale data, failed delivery) leaves it as it was
C2_RecordOnlyOnSuccess ==
    [][/\ (record' # record =>
              pc = "run_once" /\ cyc'.outcome = "sent" /\ cyc'.delivered)
       /\ (pc = "run_once" /\ cyc'.outcome = "sent" => record' = StrRecord(cyc'.date))
       /\ (pc = "run_once" /\ cyc'.outcome # "sent" => record' = record)
       /\ (pc = "run_once" /\ ~cyc'.delivered => cyc'.outcome # "sent")]_vars

\* a cycle that delivered and wrote its date over a different record
C2_Witness ==
    /\ cyc.outcome = "sent"
    /\ cyc.delivered
    /\ record = StrRecord(cyc.date)
    /\ PyInt(cyc.date).v = Today(now)

\* C3: a cycle, continuous or forced, whose fetched RosterDate is numerically
\* earlier than today's date attempts no delivery and does not touch the record
C3_StalenessGuard ==
    [][(/\ pc = "run_once"
        /\ PyInt(cyc'.date).ok
        /\ PyInt(cyc'.date).v < Today(now))
       => (~cyc'.attempted /\ ~cyc'.delivered /\ record' = record)]_vars

\* a forced cycle that fetched yesterday's roster and stopped at the guard
C3_Witness ==
    /\ argv = "force"
    /\ cyc.outcome = "stale"
    /\ cyc.fairies # <<>>
    /\ cyc.date = Strftime(Calendar(now.day - 1))
    /\ ~cyc.attempted

InWindow(wd, hour, minute) ==
    LET tm == 60 * hour + minute
    IN  IF wd \in 0..4 THEN 60 * 13 + 41 <= tm /\ tm <= 60 * 14 + 58
        ELSE 60 * 11 + 41 <= tm /\ tm <= 60 * 12 + 58

\* C4: _is_send_time is true exactly on 13:41..14:58 from Monday to Friday
\* and on 11:41..12:58 on Saturday and Sunday
C4_SendWindow ==
    pc = "done" => fnOut = InWindow(fnIn.wd, fnIn.hour, fnIn.minute)

\* Tuesday 13:45, found inside the window
C4_Witness ==
    /\ pc = "done"
    /\ fnIn = [wd |-> 1, hour |-> 13, minute |-> 45]
    /\ fnOut = TRUE

\* the date a well-formed record holds
RecordDate(rec) == IF rec.d.t = "num" THEN rec.d.n ELSE PyInt(rec.d.s).v

WellFormedRecord(rec) ==
    /\ rec.t = "obj"
    /\ \/ rec.d.t = "num"
       \/ rec.d.t = "str" /\ PyInt(rec.d.s).ok

\* C5: the new-day check is true without a record file, true when the
\* stored date is less than today's date, false when it is today's date;
\* also for the record update_record wrote
C5_NewDay ==
    [][pc = "should_send" =>
        /\ (record.t = "absent" => gate'.newDay = "T")
        /\ (WellFormedRecord(record) /\ RecordDate(record) < Today(now)
                => gate'.newDay = "T")
        /\ (WellFormedRecord(record) /\ RecordDate(record) = Today(now)
                => gate'.newDay = "F")]_vars

\* the check reading today's date back from the record written today
C5_Witness ==
    /\ sentToday = 1
    /\ record = StrRecord(Strftime(Calendar(now.day)))
    /\ gate.newDay = "F"
    /\ gate.raised = ""
    /\ pc = "sleep"
    /\ cyc = NoCycle

\* C6: every label containing the compound keyword is classified ALL, also
\* when the daytime keyword occurs elsewhere in it
C6_CompoundWins ==
    (pc = "done" /\ Contains(Keyword("ALL"), fnIn)) => fnOut = "ALL"

\* C7: a label with neither the daytime nor the compound keyword is
\* classified NIGHT, and every label gets one of the three categories
C7_DefaultNight ==
    pc = "done" =>
        /\ fnOut \in {"DAY", "ALL", "NIGHT"}
        /\ (~Contains(Keyword("DAY"), fnIn) /\ ~Contains(Keyword("ALL"), fnIn)
                => fnOut = "NIGHT")

\* a label without any keyword, classified NIGHT
C7_Witness ==
    /\ pc = "done"
    /\ fnIn = <<"x", Wu, "x", An>>
    /\ fnOut = "NIGHT"

WellFormedItems(v) ==
    /\ v.t = "list"
    /\ \A i \in 1..Len(v.l) : v.l[i].t = "obj" /\ v.l[i].name.t = "str"

WellFormed(data) ==
    /\ data.t = "cats"
    /\ \A i \in 1..Len(data.cats) :
         /\ data.cats[i].t = "obj"
         /\ data.cats[i].name.t = "str"
         /\ WellFormedItems(data.cats[i].items)

\* the items of the categories from position i on, in input order, each with
\* the shift of its category
RECURSIVE Flatten(_, _)
Flatten(cats, i) ==
    IF i > Len(cats) THEN <<>>
    ELSE [j \in 1..Len(cats[i].items.l) |->
             Fairy(cats[i].items.l[j].name, from_name(cats[i].name.s))]
         \o Flatten(cats, i + 1)

RECURSIVE OfShift(_, _)
OfShift(fs, sch) ==
    IF fs = <<>> THEN <<>>
    ELSE IF fs[1].schedule = sch THEN <<fs[1]>> \o OfShift(Tail(fs), sch)
    ELSE OfShift(Tail(fs), sch)

\* C8: on well-formed input the roster holds every item once, Day before All
\* before Night, the entries of one shift in their input order
C8_StableSort ==
    (pc = "done" /\ WellFormed(fnIn)) =>
        LET flat == Flatten(fnIn.cats, 1)
        IN  fnOut.fairies =
                OfShift(flat, "DAY") \o OfShift(flat, "ALL") \o OfShift(flat, "NIGHT")

\* a night, a day and another night category: the day entry moves to the
\* front, the two night entries keep their order
C8_Witness ==
    /\ pc = "done"
    /\ fnIn = CatsData(<<CategoryObj(NightLabel, ItemList(<<ItemObj(Bob)>>)),
                         CategoryObj(DayLabel, ItemList(<<ItemObj(Alice)>>)),
                         CategoryObj(NightLabel, ItemList(<<ItemObj(Alice)>>))>>)
    /\ fnOut.fairies = <<Fairy(Alice, "DAY"), Fairy(Bob, "NIGHT"), Fairy(Alice, "NIGHT")>>

\* C9: on malformed input the parser returns an empty roster and an empty
\* RosterDate
C9_AllOrNothing ==
    (pc = "done" /\ ~WellFormed(fnIn)) => (fnOut.fairies = <<>> /\ fnOut.date = <<>>)

\* C10: with "force" exactly one cycle runs, without the gate being
\* consulted, and the process ends; without it the process, once the
\* configuration is loaded, never ends on its own (stated for the runs in
\* which the new-day check itself did not raise)
C10_Modes ==
    config =>
        /\ (argv = "force" => cycles <= 1 /\ gate = NoGate)
        /\ (argv = "force" /\ pc = "exited" => cycles = 1)
        /\ (argv = "force" /\ cycles = 1 => pc = "exited")
        /\ (argv # "force" /\ gate.raised = "" => pc # "exited")

\* the clock is inside the send window of its day type
NowInWindow == InWindow(Calendar(now.day).wd, now.hour, now.minute)

C12_DayStateMachine ==
    [][Continuous =>
        /\ (pc = "should_send" /\ sentToday >= 1 => gate'.newDay = "F")
        /\ (pc = "sleep" /\ sentToday >= 1 /\ now'.day # now.day
                => _is_new_day(record, now').v)]_vars

\* C13: a cycle in which _parse_fairies met a missing or mistyped field
\* attempts no delivery and does not update the record
C13_ParseErrorNoSend ==
    [][(pc = "run_once" /\ cyc'.err # "")
          => (~cyc'.attempted /\ ~cyc'.delivered /\ record' = record)]_vars

\* C14: when an error is raised inside a cycle of run, the loop goes on to
\* the sleep and the following cycles
C14_LoopSurvives ==
    [][(/\ Continuous
        /\ \/ pc = "run_once" /\ cyc'.raised # ""
           \/ pc = "should_send" /\ gate'.raised # "")
       => (pc' = "sleep" /\ exitMsg' = "")]_vars

\* a roster _parse_fairies returned without error, dated today or later
FreshRoster(c, t) ==
    /\ c.hours = "uuids"
    /\ c.err = ""
    /\ c.fairies # <<>>
    /\ PyInt(c.date).ok
    /\ PyInt(c.date).v >= Today(t)

\* C15: a failed delivery leaves the record unchanged, so every later cycle
\* of that day inside the window passes the gate again; a gated cycle with a
\* fresh roster attempts the delivery, and when it succeeds the roster is
\* delivered and the record written
C15_ImplicitRetry ==
    [][Continuous =>
        /\ (pc = "run_once" /\ cyc'.attempted /\ ~cyc'.delivered => record' = record)
        /\ (pc = "should_send" /\ failedToday /\ NowInWindow => pc' = "run_once")
        /\ (pc = "run_once" /\ FreshRoster(cyc', now) => cyc'.attempted)
        /\ (pc = "run_once" /\ cyc'.delivered /\ cyc'.raised = ""
                => record' = StrRecord(cyc'.date) /\ sentToday' = 1)]_vars

\* a later cycle of the day of a failed delivery, past the gate again
C15_Witness ==
    /\ Continuous
    /\ failedToday
    /\ sentToday = 0
    /\ pc = "run_once"
    /\ NowInWindow
    /\ cyc = NoCycle
    /\ gate.newDay = "T"

\* record.json is there but is not a well-formed {"date": ...} object
CorruptRecord(rec) == rec.t # "absent" /\ ~WellFormedRecord(rec)

\* C16: on every record that is not well formed (invalid JSON, a non-numeric
\* date string, a null date, a JSON value that is not an object) the
\* new-day check returns true and raises nothing
C16_CorruptRecordNewDay ==
    [][(pc = "should_send" /\ CorruptRecord(record))
          => (gate'.raised = "" /\ gate'.newDay = "T")]_vars

\* the fetch failed at a request, or gave an empty roster or an empty date
FetchGaveNothing(c) ==
    \/ c.hours \in {"failed", "empty"}
    \/ c.hours = "uuids" /\ (c.fairies = <<>> \/ c.date = <<>>)

\* C17: a cycle whose fetch fails at either request, or yields an empty
\* roster or an empty RosterDate, attempts no delivery, leaves the record
\* unchanged and raises nothing; in continuous mode the loop goes to sleep
C17_NoDataNoSend ==
    [][(pc = "run_once" /\ FetchGaveNothing(cyc'))
          => /\ ~cyc'.attempted
             /\ ~cyc'.delivered
             /\ record' = record
             /\ cyc'.raised = ""
             /\ (Continuous => pc' = "sleep" /\ exitMsg' = "")]_vars

\* a continuous cycle that fetched a dated category without items
C17_Witness ==
    /\ Continuous
    /\ pc = "sleep"
    /\ cyc.hours = "uuids"
    /\ cyc.fairies = <<>>
    /\ cyc.date = Strftime(Calendar(now.day))
    /\ cyc.outcome = "no_data"
    /\ record = NoRecord

\* the labels of the categories that are text of eight characters or more
RECURSIVE DatedLabels(_, _)
DatedLabels(cats, i) ==
    IF i > Len(cats) THEN <<>>
    ELSE IF cats[i].t = "obj" /\ cats[i].name.t = "str" /\ Len(cats[i].name.s) >= 8
    THEN <<cats[i].name.s>> \o DatedLabels(cats, i + 1)
    ELSE DatedLabels(cats, i + 1)

\* C18: RosterDate is the first eight characters of the first category label
\* of length eight or more, never overwritten by a later category; on
\* well-formed input it is empty only when no label has that length
C18_FirstWins ==
    (pc = "done" /\ fnIn.t = "cats") =>
        LET dated == DatedLabels(fnIn.cats, 1)
        IN  /\ (fnOut.date # <<>> =>
                   dated # <<>> /\ fnOut.date = SubSeq(dated[1], 1, 8))
            /\ (WellFormed(fnIn) =>
                   fnOut.date = IF dated = <<>> THEN <<>> ELSE SubSeq(dated[1], 1, 8))

\* an undated category, then two categories with different dates: the date
\* is that of the second category
C18_Witness ==
    /\ pc = "done"
    /\ fnIn = CatsData(<<CategoryObj(NightLabel, ItemList(<<ItemObj(Bob)>>)),
                         CategoryObj(AllLabel, ItemList(<<ItemObj(Alice)>>)),
                         CategoryObj(DayLabel, ItemList(<<ItemObj(Alice)>>))>>)
    /\ fnOut.date = Strftime(Calendar(1))

\* C19: in continuous mode every write of the record stores a date later
\* than the one stored before and not earlier than the date of the day of
\* the write
C19_RecordMovesForward ==
    [][(Continuous /\ pc = "run_once" /\ (cyc'.outcome = "sent" \/ record' # record))
          => /\ record'.t = "obj" /\ record'.d.t = "str" /\ PyInt(record'.d.s).ok
             /\ PyInt(record'.d.s).v >= Today(now)
             /\ (WellFormedRecord(record) => PyInt(record'.d.s).v > RecordDate(record))]_vars

\* a record written on the second day of the run, holding that day's date
C19_Witness ==
    /\ Continuous
    /\ now.day = 1
    /\ cyc.outcome = "sent"
    /\ sentToday = 1
    /\ record = StrRecord(Strftime(Calendar(1)))

====
